---------------------------- MODULE Spec2Model ----------------------------
(***************************************************************************)
(* Model of assistant_bot.py: the interactive contact bot (parse_input,    *)
(* handle_command, the command handlers over the flat contacts dict, the   *)
(* input_error decorator) and the Field / Phone / Record classes.          *)
(*                                                                         *)
(* A Python str is a sequence of one-character strings.  The character     *)
(* "sup2" stands for U+00B2 (SUPERSCRIPT TWO), a character for which       *)
(* str.isdigit() is True although it is not a decimal digit.               *)
(***************************************************************************)
EXTENDS Integers, Sequences, FiniteSets, TLC

VARIABLES
    contacts,    \* main: the contacts dict, as its items in insertion order
    running,     \* main: TRUE while the `while True` loop is alive
    tokens,      \* the tokens of the last line read, as the user typed them
    command,     \* main: the command token of the last line read
    args,        \* main: the argument tokens of the last line read
    out,         \* what the last line made the program print, in order
    typed,       \* history: for each entry stored by `add` and not changed
                 \* since, the name and phone tokens as the user typed them
    value,       \* Phone.__init__: the string passed to the constructor
    made,        \* Phone.__init__: "none", "Phone" or "ValueError"
    phones,      \* Record.phones: the values of the Phone objects, in order
    before,      \* Record.phones as it was before the last method call
    call,        \* the last Record method call: [op, old, new]
    raised       \* the exception the last Record method call raised

vars == <<contacts, running, tokens, command, args, out, typed,
          value, made, phones, before, call, raised>>
loopVars == <<contacts, running, tokens, command, args, out, typed>>
phoneVars == <<value, made>>
recordVars == <<phones, before, call, raised>>

----------------------------------------------------------------------------
(* Bounds of the model.                                                    *)

\* The largest number of argument tokens on an input line.
MaxArgs == 3
\* The longest string handed to Phone.__init__.
MaxLen == 12
\* The longest phone list a Record grows to.
MaxPhones == 3

----------------------------------------------------------------------------
(* Python str primitives.                                                  *)

UpperChars == <<"A","B","C","D","E","F","G","H","I","J","K","L","M",
                "N","O","P","Q","R","S","T","U","V","W","X","Y","Z">>
LowerChars == <<"a","b","c","d","e","f","g","h","i","j","k","l","m",
                "n","o","p","q","r","s","t","u","v","w","x","y","z">>
WhitespaceChars == {" ", "\t"}
DecimalDigits == {"0","1","2","3","4","5","6","7","8","9"}
\* Characters with Numeric_Type=Digit that are not decimal digits.
OtherDigits == {"sup2"}

\* str.lower() on one character.
LowerChar(c) ==
    IF \E i \in 1..Len(UpperChars) : UpperChars[i] = c
    THEN LowerChars[CHOOSE i \in 1..Len(UpperChars) : UpperChars[i] = c]
    ELSE c

\* str.lower()
RECURSIVE str_lower(_)
str_lower(s) ==
    IF s = <<>> THEN <<>>
    ELSE <<LowerChar(Head(s))>> \o str_lower(Tail(s))

\* str.lstrip() / str.rstrip() / str.strip() with no argument.
RECURSIVE str_lstrip(_)
str_lstrip(s) ==
    IF s # <<>> /\ Head(s) \in WhitespaceChars THEN str_lstrip(Tail(s)) ELSE s

RECURSIVE str_rstrip(_)
str_rstrip(s) ==
    IF s # <<>> /\ s[Len(s)] \in WhitespaceChars
    THEN str_rstrip(SubSeq(s, 1, Len(s) - 1))
    ELSE s

str_strip(s) == str_rstrip(str_lstrip(s))

\* str.split() with no argument: the maximal runs of non-whitespace.
\* cur is the run being read, acc the runs already closed.
RECURSIVE SplitFrom(_, _, _)
SplitFrom(s, cur, acc) ==
    IF s = <<>>
    THEN IF cur = <<>> THEN acc ELSE Append(acc, cur)
    ELSE IF Head(s) \in WhitespaceChars
         THEN SplitFrom(Tail(s), <<>>, IF cur = <<>> THEN acc ELSE Append(acc, cur))
         ELSE SplitFrom(Tail(s), Append(cur, Head(s)), acc)

str_split(s) == SplitFrom(s, <<>>, <<>>)

\* str.isdigit(): non-empty and every character is a digit (decimal or not).
str_isdigit(s) ==
    /\ s # <<>>
    /\ \A i \in 1..Len(s) : s[i] \in DecimalDigits \cup OtherDigits


----------------------------------------------------------------------------
(* The string literals of the program.                                     *)

PhoneLen == 10

T_hello == <<"h","e","l","l","o">>
T_add == <<"a","d","d">>
T_change == <<"c","h","a","n","g","e">>
T_phone == <<"p","h","o","n","e">>
T_all == <<"a","l","l">>
T_close == <<"c","l","o","s","e">>
T_exit == <<"e","x","i","t">>
T_quit == <<"q","u","i","t">>
T_help == <<"h","e","l","p">>

\* The keys of main's command_handlers dict.
CommandNames == {T_hello, T_add, T_change, T_phone, T_all,
                 T_close, T_exit, T_quit, T_help}

UsageAdd == "Usage: add [name] [phone number]"
UsageChange == "Usage: change [name] [new phone number]"
UsagePhone == "Usage: phone [name]"

----------------------------------------------------------------------------
(* The contacts dict: a Python dict keeps its items in insertion order, so *)
(* it is the sequence of its items [name, phone], the names distinct.      *)

dict_contains(d, k) == \E i \in 1..Len(d) : d[i].name = k

dict_getitem(d, k) == d[CHOOSE i \in 1..Len(d) : d[i].name = k].phone

\* d[k] = v: a present key keeps its place, a new key goes last.
dict_setitem(d, k, v) ==
    IF dict_contains(d, k)
    THEN [i \in 1..Len(d) |-> IF d[i].name = k THEN [name |-> k, phone |-> v] ELSE d[i]]
    ELSE Append(d, [name |-> k, phone |-> v])

dict_keys(d) == {d[i].name : i \in 1..Len(d)}

----------------------------------------------------------------------------
(* What a call leaves behind: the dict, the lines printed, and the         *)
(* exception that leaves the call ("none" for a normal return).            *)

\* One print() call: which message, and the name, phone and text in it.
Msg(kind, name, phone, text) ==
    [kind |-> kind, name |-> name, phone |-> phone, text |-> text]

Return(d, printed) ==
    [contacts |-> d, out |-> printed, raised |-> "none", text |-> ""]

Raise(d, printed, exc, text) ==
    [contacts |-> d, out |-> printed, raised |-> exc, text |-> text]

\* The exception classes the model raises that derive from Exception;
\* SystemExit derives from BaseException only.
ExceptionClasses == {"TypeError", "ValueError", "KeyError", "IndexError"}

help_command == <<Msg("help", <<>>, <<>>, "")>>

\* A decorator that also catches what `except Exception` lets through.
input_error_bare_except(r) ==
    IF r.raised = "none" THEN r
    ELSE Return(r.contacts,
                Append(r.out, Msg("An unexpected error occurred:", <<>>, <<>>, r.text)))

\* @input_error: the wrapper around a handler's result.
input_error(r) ==
    CASE r.raised = "none" -> r
      [] r.raised = "TypeError" ->
            Return(r.contacts,
                   Append(r.out, Msg("Error: Incorrect command.", <<>>, <<>>, r.text))
                       \o help_command)
      [] r.raised = "ValueError" ->
            Return(r.contacts,
                   Append(r.out, Msg("Error: Incorrect arguments.", <<>>, <<>>, r.text)))
      [] r.raised = "KeyError" ->
            Return(r.contacts,
                   Append(r.out, Msg("Error: Contact not found.", <<>>, <<>>, r.text)))
      [] r.raised = "IndexError" ->
            Return(r.contacts,
                   Append(r.out, Msg("Error: Index out of range.", <<>>, <<>>, r.text)))
      [] r.raised \in ExceptionClasses ->
            Return(r.contacts,
                   Append(r.out, Msg("An unexpected error occurred:", <<>>, <<>>, r.text)))
      [] OTHER -> r

----------------------------------------------------------------------------
(* parse_input and the command handlers.                                   *)

parse_input(user_input) ==
    LET parts == str_split(str_lower(user_input))
    IN  [command |-> IF parts # <<>> THEN parts[1] ELSE <<>>,
         args    |-> IF Len(parts) > 1 THEN Tail(parts) ELSE <<>>]

hello(d) == input_error(Return(d, <<Msg("How can I help you?", <<>>, <<>>, "")>>))

\* An add_contact that stores the new phone over a different stored one.
add_contact_overwrites(d, a) ==
    input_error(
        IF Len(a) # 2 THEN Raise(d, <<>>, "ValueError", UsageAdd)
        ELSE IF dict_contains(d, a[1]) /\ dict_getitem(d, a[1]) = a[2]
             THEN Return(d, <<Msg("already exists", a[1], a[2], "")>>)
             ELSE Return(dict_setitem(d, a[1], a[2]),
                         <<Msg("added with phone number", a[1], a[2], "")>>))

add_contact(d, a) ==
    input_error(
        IF Len(a) # 2 THEN Raise(d, <<>>, "ValueError", UsageAdd)
        ELSE LET name == a[1]
                 phone == a[2]
             IN  IF dict_contains(d, name)
                 THEN IF dict_getitem(d, name) = phone
                      THEN Return(d, <<Msg("already exists", name, phone, "")>>)
                      ELSE Return(d, <<Msg("is already added with the number",
                                           name, dict_getitem(d, name),
                                           "To change the number, use the change command.")>>)
                 ELSE Return(dict_setitem(d, name, phone),
                             <<Msg("added with phone number", name, phone, "")>>))

\* A change_contact that stores the phone of an unknown name.
change_contact_upsert(d, a) ==
    input_error(
        IF Len(a) # 2 THEN Raise(d, <<>>, "ValueError", UsageChange)
        ELSE IF dict_contains(d, a[1]) /\ dict_getitem(d, a[1]) = a[2]
             THEN Return(d, <<Msg("No changes were made.", a[1], a[2], "")>>)
             ELSE Return(dict_setitem(d, a[1], a[2]),
                         <<Msg("the phone has been changed", a[1], a[2], "")>>))

change_contact(d, a) ==
    input_error(
        IF Len(a) # 2 THEN Raise(d, <<>>, "ValueError", UsageChange)
        ELSE LET name == a[1]
                 new_phone == a[2]
             IN  IF dict_contains(d, name)
                 THEN IF new_phone = dict_getitem(d, name)
                      THEN Return(d, <<Msg("No changes were made.", name, new_phone, "")>>)
                      ELSE Return(dict_setitem(d, name, new_phone),
                                  <<Msg("the phone has been changed", name, new_phone, "")>>)
                 ELSE Raise(d, <<>>, "KeyError", "Name not found."))

\* A show_phone that only asks for at least one argument.
show_phone_at_least_one(d, a) ==
    input_error(
        IF Len(a) < 1 THEN Raise(d, <<>>, "ValueError", UsagePhone)
        ELSE IF dict_contains(d, a[1])
             THEN Return(d, <<Msg("Phone number of", a[1], dict_getitem(d, a[1]), "")>>)
             ELSE Raise(d, <<>>, "KeyError", "Name not found."))

show_phone(d, a) ==
    input_error(
        IF Len(a) # 1 THEN Raise(d, <<>>, "ValueError", UsagePhone)
        ELSE LET name == a[1]
             IN  IF dict_contains(d, name)
                 THEN Return(d, <<Msg("Phone number of", name, dict_getitem(d, name), "")>>)
                 ELSE Raise(d, <<>>, "KeyError", "Name not found."))

\* A show_all_contacts that prints the first item only.
show_all_contacts_first_only(d) ==
    input_error(
        IF d # <<>>
        THEN Return(d, <<Msg("item", d[1].name, d[1].phone, "")>>)
        ELSE Raise(d, <<>>, "IndexError", "No contacts available."))

show_all_contacts(d) ==
    input_error(
        IF d # <<>>
        THEN Return(d, [i \in 1..Len(d) |-> Msg("item", d[i].name, d[i].phone, "")])
        ELSE Raise(d, <<>>, "IndexError", "No contacts available."))

\* Not decorated: sys.exit() raises SystemExit after the farewell.
handle_exit(d) == Raise(d, <<Msg("Good bye!", <<>>, <<>>, "")>>, "SystemExit", "")

\* command_handlers[command](args): the lambdas of main.
command_handlers(d, cmd, a) ==
    CASE cmd = T_hello  -> hello(d)
      [] cmd = T_add    -> add_contact(d, a)
      [] cmd = T_change -> change_contact(d, a)
      [] cmd = T_phone  -> show_phone(d, a)
      [] cmd = T_all    -> show_all_contacts(d)
      [] cmd = T_close  -> handle_exit(d)
      [] cmd = T_exit   -> handle_exit(d)
      [] cmd = T_quit   -> handle_exit(d)
      [] cmd = T_help   -> Return(d, help_command)

handle_command(d, cmd, a) ==
    input_error(
        IF cmd \in CommandNames
        THEN command_handlers(d, cmd, a)
        ELSE Raise(d, <<>>, "TypeError", "Unknown command"))


----------------------------------------------------------------------------
(* The lines a user types.  A line is the tokens typed and the text they   *)
(* make with the whitespace around them.                                   *)

Phone1 == <<"1","2","3","4","5","6","7","8","9","0">>
Phone2 == <<"0","9","8","7","6","5","4","3","2","1">>
\* Not ten characters, and not all digits.
PhoneBad == <<"1","2","A">>
PhoneTokens == {Phone1, Phone2, PhoneBad}

\* The names typed after add and change, and those typed after phone.
NameTokens == {<<"A","l">>, <<"b","o">>}
LookupTokens == NameTokens \cup {<<"a","l">>, <<"A","L">>}

\* Argument lists of n tokens: a name, then a phone, then filler.
ArgLists(names, phoneSet, n) ==
    CASE n = 0 -> {<<>>}
      [] n = 1 -> {<<nm>> : nm \in names}
      [] n = 2 -> {<<nm, ph>> : nm \in names, ph \in phoneSet}
      [] OTHER -> {<<<<"A","l">>, Phone1>> \o [i \in 1..(n - 2) |-> <<"x">>]}

\* The lines made of one of the words and an argument list.
TokenLists(words, names, phoneSet) ==
    UNION {{<<w>> \o a : a \in ArgLists(names, phoneSet, n)} :
              w \in words, n \in 0..MaxArgs}

\* The whitespace before the first token, between two tokens, after the last.
Layouts == {[lead |-> <<>>, sep |-> <<" ">>, trail |-> <<>>],
            [lead |-> <<" ">>, sep |-> <<"\t", " ">>, trail |-> <<" ", "\t">>]}

RECURSIVE JoinTokens(_, _)
JoinTokens(toks, sep) ==
    IF toks = <<>> THEN <<>>
    ELSE IF Len(toks) = 1 THEN toks[1]
    ELSE toks[1] \o sep \o JoinTokens(Tail(toks), sep)

Lines(tokenLists) ==
    {[tokens |-> t, text |-> l.lead \o JoinTokens(t, l.sep) \o l.trail] :
        t \in tokenLists, l \in Layouts}

HelloLines == Lines(TokenLists({T_hello}, {<<"A","l">>}, {Phone1}))
AddLines == Lines(TokenLists({T_add, <<"A","D","D">>}, NameTokens, PhoneTokens))
ChangeLines == Lines(TokenLists({T_change, <<"C","h","a","n","g","e">>}, NameTokens, PhoneTokens))
PhoneLines == Lines(TokenLists({T_phone, <<"P","h","o","N","e">>}, LookupTokens, {Phone1}))
AllLines == Lines(TokenLists({T_all}, {<<"A","l">>}, {Phone1}))
ExitLines == Lines(TokenLists({T_close, T_exit, T_quit, <<"E","X","I","T">>}, {<<"A","l">>}, {Phone1}))
HelpLines == Lines(TokenLists({T_help}, {<<"A","l">>}, {Phone1}))
OtherLines == Lines({<<>>} \cup TokenLists({<<"f","o","o">>}, {<<"A","l">>}, {Phone1}))

----------------------------------------------------------------------------
(* main: the read loop.                                                    *)

\* user_input = input(...).strip(); command, args = parse_input(user_input)
\* for each line of a set, computed once per line.
Read(lines) ==
    {[tokens |-> l.tokens, parsed |-> parse_input(str_strip(l.text))] : l \in lines}

\* The typed-token history after a line took the dict from d to e.
TypedAfter(d, e, toks) ==
    LET kept == {t \in typed : dict_getitem(e, t.key) = dict_getitem(d, t.key)}
    IN  IF Len(e) > Len(d)
        THEN kept \cup {[key |-> e[Len(e)].name, name |-> toks[2], phone |-> toks[3]]}
        ELSE kept

\* One turn of `while True` on a line read: dispatch it.
main_loop(line) ==
    /\ running
    /\ \E r \in {handle_command(contacts, line.parsed.command, line.parsed.args)} :
          /\ contacts' = r.contacts
          /\ out' = r.out
          /\ running' = (r.raised = "none")
          /\ typed' = TypedAfter(contacts, r.contacts, line.tokens)
    /\ tokens' = line.tokens
    /\ command' = line.parsed.command
    /\ args' = line.parsed.args
    /\ UNCHANGED <<phoneVars, recordVars>>

HelloRead == Read(HelloLines)
AddRead == Read(AddLines)
ChangeRead == Read(ChangeLines)
PhoneRead == Read(PhoneLines)
AllRead == Read(AllLines)
ExitRead == Read(ExitLines)
HelpRead == Read(HelpLines)
OtherRead == Read(OtherLines)

\* The actions: a line whose command token selects each handler.
Hello == \E l \in HelloRead : l.parsed.command = T_hello /\ main_loop(l)
Add == \E l \in AddRead : l.parsed.command = T_add /\ main_loop(l)
Change == \E l \in ChangeRead : l.parsed.command = T_change /\ main_loop(l)
ShowPhone == \E l \in PhoneRead : l.parsed.command = T_phone /\ main_loop(l)
ShowAll == \E l \in AllRead : l.parsed.command = T_all /\ main_loop(l)
Exit == \E l \in ExitRead : l.parsed.command \in {T_close, T_exit, T_quit} /\ main_loop(l)
Help == \E l \in HelpRead : l.parsed.command = T_help /\ main_loop(l)
Unknown == \E l \in OtherRead : l.parsed.command \notin CommandNames /\ main_loop(l)

LoopIdle ==
    /\ contacts = <<>>
    /\ running = TRUE
    /\ tokens = <<>>
    /\ command = <<>>
    /\ args = <<>>
    /\ out = <<>>
    /\ typed = {}

PhoneIdle ==
    /\ value = <<>>
    /\ made = [raised |-> "none", value |-> <<>>]

RecordIdle ==
    /\ phones = <<>>
    /\ before = <<>>
    /\ call = [op |-> "__init__", old |-> <<>>, new |-> <<>>]
    /\ raised = "none"

\* main starts with an empty dict.
Init == LoopIdle /\ PhoneIdle /\ RecordIdle

Next ==
    \/ Hello
    \/ Add
    \/ Change
    \/ ShowPhone
    \/ ShowAll
    \/ Exit
    \/ Help
    \/ Unknown

Spec == Init /\ [][Next]_vars

----------------------------------------------------------------------------
(* Field, Phone and Record.                                                *)

\* Field.__init__: self.value = value
Field_init(v) == [raised |-> "none", value |-> v]

\* Phone.__init__
Phone_init(v) ==
    IF ~str_isdigit(v) \/ Len(str_strip(v)) # PhoneLen
    THEN [raised |-> "ValueError", value |-> <<>>]
    ELSE Field_init(v)

\* list.remove of the element at place i.
list_remove_at(ps, i) == SubSeq(ps, 1, i - 1) \o SubSeq(ps, i + 1, Len(ps))

\* Record.add_phone
add_phone(ps, phone) ==
    LET p == Phone_init(phone)
    IN  IF p.raised # "none"
        THEN [phones |-> ps, raised |-> p.raised]
        ELSE [phones |-> Append(ps, p.value), raised |-> "none"]

\* A remove_phone that drops every phone equal to the argument.
remove_phone_every(ps, phone) ==
    [phones |-> SelectSeq(ps, LAMBDA x : x # phone), raised |-> "none"]

\* The loop of Record.remove_phone from place i on: the Phone objects of a
\* record are distinct objects, so self.phones.remove(p) removes the very
\* element the loop stands on, and the loop breaks.
RECURSIVE remove_phone_from(_, _, _)
remove_phone_from(ps, i, phone) ==
    IF i > Len(ps) THEN ps
    ELSE IF ps[i] = phone THEN list_remove_at(ps, i)
    ELSE remove_phone_from(ps, i + 1, phone)

\* Record.remove_phone
remove_phone(ps, phone) ==
    [phones |-> remove_phone_from(ps, 1, phone), raised |-> "none"]

\* Record.edit_phone
edit_phone(ps, old_phone, new_phone) ==
    LET removed == remove_phone(ps, old_phone)
    IN  IF removed.raised # "none" THEN removed
        ELSE add_phone(removed.phones, new_phone)

----------------------------------------------------------------------------
(* Phone construction on its own.                                          *)

\* The character at place i of the digit strings tried.
DigitAt(i) == <<"1","2","3","4","5","6","7","8","9","0">>[((i - 1) % 10) + 1]

\* Characters put in place of a digit: a letter, a sign, whitespace, and a
\* digit that is not decimal.
OddChars == {"a", "+", " ", "sup2"}

\* Strings of up to MaxLen characters: digits, but for at most two places
\* (place 0 is no place).
PhoneInputs ==
    UNION {{[i \in 1..n |-> IF i = p THEN c ELSE IF i = q THEN e ELSE DigitAt(i)] :
               p \in 0..n, q \in 0..n, c \in OddChars, e \in OddChars} :
           n \in 0..MaxLen}

InitPhone ==
    /\ LoopIdle
    /\ RecordIdle
    /\ value \in PhoneInputs
    /\ made = [raised |-> "none", value |-> <<>>]

\* Phone(value)
Construct ==
    /\ made = [raised |-> "none", value |-> <<>>]
    /\ made' = Phone_init(value)
    /\ UNCHANGED <<value, loopVars, recordVars>>

NextPhone == Construct

SpecPhone == InitPhone /\ [][NextPhone]_vars

----------------------------------------------------------------------------
(* One Record and the calls made on it.                                    *)

\* The strings passed to the methods: two phones, and two that are none.
RecordInputs == {Phone1, Phone2, PhoneBad, <<>>}

RecordCall(op, old, new, r) ==
    /\ Len(r.phones) <= MaxPhones
    /\ phones' = r.phones
    /\ raised' = r.raised
    /\ before' = phones
    /\ call' = [op |-> op, old |-> old, new |-> new]
    /\ UNCHANGED <<loopVars, phoneVars>>

AddPhone ==
    \E new \in RecordInputs :
        RecordCall("add_phone", <<>>, new, add_phone(phones, new))

RemovePhone ==
    \E old \in RecordInputs :
        RecordCall("remove_phone", old, <<>>, remove_phone(phones, old))

EditPhone ==
    \E old \in RecordInputs, new \in RecordInputs :
        RecordCall("edit_phone", old, new, edit_phone(phones, old, new))

\* Record.__init__: self.phones = []
InitRecord == LoopIdle /\ PhoneIdle /\ RecordIdle

NextRecord ==
    \/ AddPhone
    \/ RemovePhone
    \/ EditPhone

SpecRecord == InitRecord /\ [][NextRecord]_vars

----------------------------------------------------------------------------
(* The vocabulary of the properties.                                       *)

\* s and t differ only in letter case.
SameModuloCase(s, t) ==
    /\ Len(s) = Len(t)
    /\ \A i \in 1..Len(s) :
          \/ s[i] = t[i]
          \/ \E j \in 1..Len(UpperChars) :
                {s[i], t[i]} = {UpperChars[j], LowerChars[j]}

NoUpperCase(s) ==
    \A i \in 1..Len(s) : \A j \in 1..Len(UpperChars) : s[i] # UpperChars[j]

\* Exactly ten characters, each a decimal digit.
TenDecimalDigits(s) ==
    /\ Len(s) = 10
    /\ \A i \in 1..Len(s) : s[i] \in DecimalDigits

\* The dict as the set of its (name, phone) pairs.
Items(d) == {<<d[i].name, d[i].phone>> : i \in 1..Len(d)}

ExitNames == {T_close, T_exit, T_quit}
ZeroArgNames == {T_hello, T_all, T_help} \cup ExitNames

\* The arity the specification gives each command.
StatedArity(cmd) ==
    IF cmd \in {T_add, T_change} THEN 2
    ELSE IF cmd = T_phone THEN 1
    ELSE 0

UsageOf(cmd) ==
    IF cmd = T_add THEN UsageAdd
    ELSE IF cmd = T_change THEN UsageChange
    ELSE UsagePhone

InvalidArgument(printed, text) ==
    printed = <<Msg("Error: Incorrect arguments.", <<>>, <<>>, text)>>

----------------------------------------------------------------------------
(* C1: `add <name> <phone>` with exactly 2 arguments never overwrites.  An *)
(* absent (lower-cased) name gains exactly the entry name -> phone, every  *)
(* other entry unchanged; a present name leaves the whole map unchanged,   *)
(* and the report is "already exists" when the stored phone equals the     *)
(* given one and the conflict message naming `change` when it differs.     *)
C1_AddNeverOverwrites ==
    [][ (command' = T_add /\ Len(args') = 2) =>
          LET name == args'[1]
              phone == args'[2]
          IN  /\ NoUpperCase(name)
              /\ SameModuloCase(name, tokens'[2])
              /\ Len(out') = 1
              /\ IF ~dict_contains(contacts, name)
                 THEN /\ Items(contacts') = Items(contacts) \cup {<<name, phone>>}
                      /\ Len(contacts') = Len(contacts) + 1
                      /\ out'[1].kind = "added with phone number"
                 ELSE /\ contacts' = contacts
                      /\ IF dict_getitem(contacts, name) = phone
                         THEN out'[1].kind = "already exists"
                         ELSE /\ out'[1].kind = "is already added with the number"
                              /\ out'[1].phone = dict_getitem(contacts, name)
                              /\ out'[1].text = "To change the number, use the change command."
      ]_vars

\* A second add of a stored name with another phone was refused, beside
\* another entry.
C1_Witness ==
    /\ command = T_add
    /\ Len(args) = 2
    /\ Len(contacts) = 2
    /\ Len(out) = 1
    /\ out[1].kind = "is already added with the number"
    /\ dict_contains(contacts, args[1])
    /\ dict_getitem(contacts, args[1]) # args[2]

(* C2: `change <name> <phone>` with exactly 2 arguments.  An absent name   *)
(* fails with the not-found error and creates no entry; a present name     *)
(* with the same phone is a reported no-op; otherwise exactly that name's  *)
(* phone becomes the new phone, the key set and every other entry kept.    *)
C2_ChangeOnlyExisting ==
    [][ (command' = T_change /\ Len(args') = 2) =>
          LET name == args'[1]
              phone == args'[2]
          IN  /\ Len(out') = 1
              /\ running'
              /\ IF ~dict_contains(contacts, name)
                 THEN /\ contacts' = contacts
                      /\ out'[1].kind = "Error: Contact not found."
                 ELSE IF dict_getitem(contacts, name) = phone
                 THEN /\ contacts' = contacts
                      /\ out'[1].kind = "No changes were made."
                 ELSE /\ dict_keys(contacts') = dict_keys(contacts)
                      /\ Len(contacts') = Len(contacts)
                      /\ dict_getitem(contacts', name) = phone
                      /\ \A k \in dict_keys(contacts) \ {name} :
                            dict_getitem(contacts', k) = dict_getitem(contacts, k)
                      /\ out'[1].kind = "the phone has been changed"
      ]_vars

\* A change of a name that is not stored failed, the map not empty.
C2_Witness ==
    /\ command = T_change
    /\ Len(args) = 2
    /\ contacts # <<>>
    /\ ~dict_contains(contacts, args[1])
    /\ Len(out) = 1
    /\ out[1].kind = "Error: Contact not found."

(* C3: after `add N P` is accepted, a later `phone N'`, N' differing from  *)
(* N only in letter case and the command token being `phone` in any letter *)
(* case, reports phone P as typed, as long as no `change` of that name     *)
(* came in between.                                                        *)
C3_PhoneReportsTyped ==
    (Len(tokens) = 2 /\ SameModuloCase(tokens[1], T_phone)) =>
        \A t \in typed :
            SameModuloCase(tokens[2], t.name) =>
                /\ Len(out) = 1
                /\ out[1].kind = "Phone number of"
                /\ out[1].phone = t.phone

(* C4: the session ends if and only if the command token is close, exit or *)
(* quit: each prints the farewell and ends the process, so that no further *)
(* line is processed; every other line is reported as a message and the    *)
(* loop goes on.                                                           *)
C4_EndsOnlyOnExit ==
    [][ /\ running
        /\ (~running') <=> (command' \in ExitNames)
        /\ (~running') => out' = <<Msg("Good bye!", <<>>, <<>>, "")>>
        /\ running' => out' # <<>>
      ]_vars

\* The session was ended by `exit`, typed in upper case and with arguments.
C4_Witness ==
    /\ ~running
    /\ command = T_exit
    /\ tokens[1] # T_exit
    /\ args # <<>>
    /\ out = <<Msg("Good bye!", <<>>, <<>>, "")>>

(* C5, as stated: every recognized command invoked with a number of        *)
(* arguments other than its arity (hello, all, help, close, exit, quit: 0; *)
(* phone: 1; add, change: 2) gives an invalid-argument error, the normal   *)
(* effect not performed.                                                   *)
C5_AritySurfacesEverywhere ==
    [][ (command' \in CommandNames /\ Len(args') # StatedArity(command')) =>
          /\ Len(out') = 1
          /\ out'[1].kind = "Error: Incorrect arguments."
          /\ contacts' = contacts
          /\ running'
      ]_vars

(* C5, amended: add, change (2 arguments) and phone (1) invoked with any   *)
(* other number of arguments give the invalid-argument error with that     *)
(* command's usage string and leave the map unchanged; hello, all, help,   *)
(* close, exit and quit ignore their arguments and act as with none.       *)
C5_ArityOfAddChangePhone ==
    [][ /\ (command' \in {T_add, T_change, T_phone}
               /\ Len(args') # StatedArity(command')) =>
              /\ InvalidArgument(out', UsageOf(command'))
              /\ contacts' = contacts
              /\ running'
        /\ (command' \in ZeroArgNames /\ args' # <<>>) =>
              LET r == handle_command(contacts, command', <<>>)
              IN  /\ contacts' = r.contacts
                  /\ out' = r.out
                  /\ running' = (r.raised = "none")
      ]_vars

\* `phone` with two arguments was answered with its usage string.
C5_Witness ==
    /\ command = T_phone
    /\ Len(args) = 2
    /\ InvalidArgument(out, UsagePhone)

(* C6: every phone stored in the contacts map is a string of exactly 10    *)
(* decimal digits, an add or change with any other phone being refused.    *)
C6_StoredPhonesValid ==
    \A i \in 1..Len(contacts) : TenDecimalDigits(contacts[i].phone)

(* C7: `all` fails with the empty-collection error exactly when the map is *)
(* empty; on a non-empty map it lists exactly the name/phone pairs of the  *)
(* map, one per entry; in both cases the map is left unchanged.            *)
C7_AllListsTheMap ==
    [][ command' = T_all =>
          /\ contacts' = contacts
          /\ running'
          /\ IF contacts = <<>>
             THEN out' = <<Msg("Error: Index out of range.", <<>>, <<>>,
                               "No contacts available.")>>
             ELSE /\ Len(out') = Cardinality(Items(contacts))
                  /\ \A i \in 1..Len(out') : out'[i].kind = "item"
                  /\ {<<out'[i].name, out'[i].phone>> : i \in 1..Len(out')}
                        = Items(contacts)
      ]_vars

\* `all` listed the two entries of a map of two.
C7_Witness ==
    /\ command = T_all
    /\ Len(contacts) = 2
    /\ Len(out) = 2
    /\ out[1] = Msg("item", contacts[1].name, contacts[1].phone, "")
    /\ out[2] = Msg("item", contacts[2].name, contacts[2].phone, "")

(* C8: Phone construction succeeds if and only if the string is exactly 10 *)
(* characters long and every character is a decimal digit; for every other *)
(* string it fails with the invalid-argument error.                        *)
C8_PhoneIffTenDecimalDigits ==
    (made # [raised |-> "none", value |-> <<>>]) =>
        IF TenDecimalDigits(value)
        THEN made = [raised |-> "none", value |-> value]
        ELSE made = [raised |-> "ValueError", value |-> <<>>]

(* C9: edit_phone(old, new) with a valid new phone: if old occurs, only    *)
(* its first occurrence is removed, the order of the others is kept, new   *)
(* is appended and the length is unchanged; if old does not occur, the     *)
(* list is the previous one with new appended.  That is the list           *)
(* remove_phone(old) followed by add_phone(new) gives.                     *)
C9_EditIsRemoveFirstThenAppend ==
    (call.op = "edit_phone" /\ raised = "none") =>
        LET places == {i \in 1..Len(before) : before[i] = call.old}
        IN  /\ IF places = {}
               THEN /\ phones = Append(before, call.new)
                    /\ Len(phones) = Len(before) + 1
               ELSE LET first == CHOOSE i \in places : \A j \in places : i <= j
                    IN  /\ phones = SubSeq(before, 1, first - 1)
                                       \o SubSeq(before, first + 1, Len(before))
                                       \o <<call.new>>
                        /\ Len(phones) = Len(before)
            /\ phones = add_phone(remove_phone(before, call.old).phones, call.new).phones

\* An edit replaced the first of two equal phones of a list, the second kept.
C9_Witness ==
    /\ call.op = "edit_phone"
    /\ raised = "none"
    /\ Cardinality({i \in 1..Len(before) : before[i] = call.old}) = 2
    /\ before[1] = call.old
    /\ call.new # call.old
    /\ \E i \in 1..Len(phones) : phones[i] = call.old

(* C10: an add_phone or edit_phone that fails with the invalid-argument    *)
(* error leaves the record's phone list as it was before the call.         *)
C10_FailedCallKeepsPhones ==
    (call.op \in {"add_phone", "edit_phone"} /\ raised = "ValueError") =>
        phones = before

============================================================================
